---------------------------- MODULE Spec2Model ----------------------------
(***************************************************************************)
(* Model of the TemperatureZero library (src/src/TemperatureZero.cpp):     *)
(* the ADC driver readInternalTemperatureRaw, the sensor enabler wakeup,   *)
(* init / getFactoryCalibration, the converter raw2temp and the user       *)
(* calibration setters.                                                    *)
(*                                                                         *)
(* The library is single threaded.  A call is modelled as a sequence of    *)
(* steps, one per busy-wait of the code: a step is the wait's exit and the *)
(* statements up to the next wait.  The ADC peripheral is the environment: *)
(* it clears STATUS.SYNCBUSY and completes conversions on its own.         *)
(*                                                                         *)
(* float values are fixed-point integers in units of 1/FP.                 *)
(***************************************************************************)
EXTENDS Integers, Sequences, FiniteSets, TLC

(***************************************************************************)
(* Fixed-point arithmetic standing for the float arithmetic of the source. *)
(* TLC's integers are 32 bits wide, so a product followed by a division is *)
(* computed by MulDiv without forming the product.                         *)
(***************************************************************************)
FP == 1000 * 1000

Abs(x) == IF x < 0 THEN -x ELSE x

Sgn(x) == IF x < 0 THEN -1 ELSE 1

RECURSIVE QuotRem(_, _, _)
\* <<q, r>> with a*b = q*c + r and 0 <= r < c, for a, b >= 0 and 0 < c
QuotRem(a, b, c) ==
  IF b = 0 THEN <<0, 0>>
  ELSE LET h  == QuotRem(a, b \div 2, c)
           r2 == 2 * h[2] + (IF b % 2 = 1 THEN a % c ELSE 0)
           q2 == 2 * h[1] + (IF b % 2 = 1 THEN a \div c ELSE 0)
       IN  <<q2 + (r2 \div c), r2 % c>>

\* a*b/c rounded to the nearest integer (c # 0)
MulDiv(a, b, c) ==
  LET qr == QuotRem(Abs(a), Abs(b), Abs(c))
      q  == qr[1] + (IF 2 * qr[2] >= Abs(c) THEN 1 ELSE 0)
  IN  Sgn(a) * Sgn(b) * Sgn(c) * q

\* x * y and x / y on fixed-point values
FMul(x, y) == MulDiv(x, y, FP)

FDiv(x, y) == MulDiv(x, FP, y)

\* (float)n for an integer n
ToFloat(n) == n * FP

\* (float)n / d for integers n and d
IDiv(n, d) == MulDiv(n, FP, d)

RECURSIVE Pow2(_)
Pow2(k) == IF k = 0 THEN 1 ELSE 2 * Pow2(k - 1)

\* x >> k
Shr(x, k) == x \div Pow2(k)

\* (uint8_t)x, (uint16_t)x and (int8_t)x
U8(x) == x % 256

U16(x) == x % 65536

I8(x) == IF U8(x) >= 128 THEN U8(x) - 256 ELSE U8(x)


RECURSIVE BitOr(_, _)
\* a | b
BitOr(a, b) ==
  IF a = 0 THEN b
  ELSE IF b = 0 THEN a
  ELSE (IF a % 2 = 1 \/ b % 2 = 1 THEN 1 ELSE 0) + 2 * BitOr(a \div 2, b \div 2)

\* whether the bits of mask m are all set in v (m a single bit)
BitSet(v, m) == (v \div m) % 2 = 1

(***************************************************************************)
(* Register constants of the MCU's peripheral headers, as the source uses  *)
(* them.                                                                   *)
(***************************************************************************)
ADC_CTRLB_RESSEL_12BIT == 0

ADC_CTRLB_PRESCALER_DIV256 == 1536

ADC_SAMPCTRL_SAMPLEN(v) == v % 64

ADC_INPUTCTRL_GAIN_1X_Val == 0

ADC_REFCTRL_REFSEL_INT1V_Val == 0

ADC_INPUTCTRL_MUXPOS_TEMP_Val == 24

ADC_INPUTCTRL_MUXNEG_GND_Val == 24

SYSCTRL_VREF_TSEN == 2

\* AVGCTRL.SAMPLENUM holds log2 of the number of samples (bits 0..3)
ADC_AVGCTRL_SAMPLENUM(n) ==
  CASE n = 1 -> 0 [] n = 2 -> 1 [] n = 4 -> 2 [] n = 8 -> 3 [] n = 16 -> 4
    [] n = 32 -> 5 [] n = 64 -> 6 [] n = 128 -> 7 [] n = 256 -> 8

\* AVGCTRL.ADJRES is bits 4..6
ADC_AVGCTRL_ADJRES(v) == (v % 8) * 16

AvgSampleNum(avgctrl) == avgctrl % 16

AvgAdjRes(avgctrl) == (avgctrl \div 16) % 8

INT1V_DIVIDER_1000 == 1000

ADC_12BIT_FULL_SCALE_VALUE_FLOAT == 4095

(***************************************************************************)
(* The averaging modes.  TemperatureZero.h, which defines TZ_AVERAGING_*,  *)
(* is not among the sources: the nine modes are nine distinct codes that   *)
(* fit the uint8_t parameter of setAveraging.                              *)
(***************************************************************************)
SampleCounts == {1, 2, 4, 8, 16, 32, 64, 128, 256}

TZ_AVERAGING(n) == ADC_AVGCTRL_SAMPLENUM(n) + 1

ValidAveraging == {TZ_AVERAGING(n) : n \in SampleCounts}

(***************************************************************************)
(* Bounds of the model.                                                    *)
(***************************************************************************)
\* setAveraging is called with the arguments 0..AvgArgMax
AvgArgMax == 10

\* a single conversion samples one of the levels i * 4095 / SampleSteps
SampleSteps == 2

AvgArgs == 0..AvgArgMax

Samples == {(i * 4095) \div SampleSteps : i \in 0..SampleSteps}

(***************************************************************************)
(* The fuse fields, already extracted ((word & mask) >> position), as      *)
(* unsigned bit patterns of their width.                                   *)
(***************************************************************************)
Fuse(ri, rd, hi, hd, ra, ha, rv, hv) ==
  [ROOM_TEMP_VAL_INT |-> ri, ROOM_TEMP_VAL_DEC |-> rd,
   HOT_TEMP_VAL_INT |-> hi, HOT_TEMP_VAL_DEC |-> hd,
   ROOM_ADC_VAL |-> ra, HOT_ADC_VAL |-> ha,
   ROOM_INT1V_VAL |-> rv, HOT_INT1V_VAL |-> hv]

\* 25.0 / 85.0 degrees, 2000 / 3000 counts, references 1.000 V / 0.990 V
SyntheticFuses == Fuse(25, 0, 85, 0, 2000, 3000, 0, 10)

\* a chip with both references off 1 V: 1.003 V (delta -3) and 0.996 V
ChipFuses == Fuse(29, 8, 84, 7, 2792, 3315, 253, 4)

\* hot reference exactly 1 V, room reference 1.010 V (delta -10)
HotUnityFuses == Fuse(30, 1, 85, 1, 2700, 3300, 246, 0)

\* room reference exactly 1 V, hot reference 1.012 V (delta -12)
RoomUnityFuses == Fuse(24, 9, 90, 2, 2650, 3400, 0, 244)

\* room 25.0 at 2000 with reference 1.000 V, hot 85.0 at 2730 with 0.900 V
DriftFuses == Fuse(25, 0, 85, 0, 2000, 2730, 0, 100)

FuseSets == {SyntheticFuses, ChipFuses, HotUnityFuses, RoomUnityFuses}

(***************************************************************************)
(* The converter and the fuse reader: pure functions of the object o.      *)
(***************************************************************************)
\* TemperatureZero::convert_dec_to_frac(uint8_t val)
convert_dec_to_frac(val) ==
  LET v == U8(val)
  IN  IF v < 10 THEN IDiv(v, 10)
      ELSE IF v < 100 THEN IDiv(v, 100)
      ELSE IDiv(v, 1000)

\* 1 - ((float)raw / INT1V_DIVIDER_1000), raw an int8_t
Int1vRef(raw) == ToFloat(1) - IDiv(I8(raw), INT1V_DIVIDER_1000)

\* ((float)reading * ref) / ADC_12BIT_FULL_SCALE_VALUE_FLOAT
VoltageCompensated(reading, ref) ==
  MulDiv(reading, ref, ADC_12BIT_FULL_SCALE_VALUE_FLOAT)

\* TemperatureZero::getFactoryCalibration()
getFactoryCalibration(o, f) ==
  LET roomInteger == U8(f.ROOM_TEMP_VAL_INT)
      roomDecimal == U8(f.ROOM_TEMP_VAL_DEC)
      hotInteger  == U8(f.HOT_TEMP_VAL_INT)
      hotDecimal  == U8(f.HOT_TEMP_VAL_DEC)
      roomRef     == Int1vRef(f.ROOM_INT1V_VAL)
      hotRef      == Int1vRef(f.HOT_INT1V_VAL)
  IN  [o EXCEPT
         !._roomTemperature = ToFloat(roomInteger) + convert_dec_to_frac(roomDecimal),
         !._roomReading = U16(f.ROOM_ADC_VAL),
         !._hotTemperature = ToFloat(hotInteger) + convert_dec_to_frac(hotDecimal),
         !._hotReading = U16(f.HOT_ADC_VAL),
         !._roomInt1vRef = roomRef,
         !._hotInt1vRef = hotRef,
         !._roomVoltageCompensated = VoltageCompensated(U16(f.ROOM_ADC_VAL), roomRef),
         !._hotVoltageCompensated = VoltageCompensated(U16(f.HOT_ADC_VAL), hotRef)]

\* the interpolation with the hot voltage as its base
InterpolateFromHot(o, v) ==
  o._roomTemperature
    + FMul(FDiv(o._hotTemperature - o._roomTemperature,
                o._hotVoltageCompensated - o._roomVoltageCompensated),
           v - o._hotVoltageCompensated)

\* _roomTemperature + ((_hotTemperature - _roomTemperature)
\*    / (_hotVoltageCompensated - _roomVoltageCompensated)) * (v - _roomVoltageCompensated)
Interpolate(o, v) ==
  o._roomTemperature
    + FMul(FDiv(o._hotTemperature - o._roomTemperature,
                o._hotVoltageCompensated - o._roomVoltageCompensated),
           v - o._roomVoltageCompensated)

\* the coarse temperature of raw2temp
CoarseTemp(o, adcReading) ==
  Interpolate(o, IDiv(adcReading, ADC_12BIT_FULL_SCALE_VALUE_FLOAT))

\* the reference taken at room temperature, without the estimate
Ref1VAtRoom(o, adcReading) == o._roomInt1vRef

\* the estimate of the 1 V reference at the coarse temperature
Ref1VAtMeasurement(o, adcReading) ==
  o._roomInt1vRef
    + MulDiv(o._hotInt1vRef - o._roomInt1vRef,
             CoarseTemp(o, adcReading) - o._roomTemperature,
             o._hotTemperature - o._roomTemperature)

\* raw2temp without its second pass
RefinedTempOnePass(o, adcReading) == CoarseTemp(o, adcReading)

\* the refined temperature of raw2temp
RefinedTemp(o, adcReading) ==
  Interpolate(o, MulDiv(adcReading, Ref1VAtMeasurement(o, adcReading),
                        ADC_12BIT_FULL_SCALE_VALUE_FLOAT))

\* result = (refinedTemp - _userCalOffsetCorrection) * _userCalGainCorrection
UserCorrection(o, refinedTemp) ==
  FMul(refinedTemp - o._userCalOffsetCorrection, o._userCalGainCorrection)

\* raw2temp with its parameter declared uint8_t
raw2tempNarrow(o, adcReading) ==
  LET refinedTemp == RefinedTemp(o, U8(adcReading))
  IN  IF o._isUserCalEnabled THEN UserCorrection(o, refinedTemp) ELSE refinedTemp

\* TemperatureZero::raw2temp(uint16_t adcReading)
raw2temp(o, adcReading) ==
  LET refinedTemp == RefinedTemp(o, U16(adcReading))
  IN  IF o._isUserCalEnabled THEN UserCorrection(o, refinedTemp) ELSE refinedTemp

\* the factory calibration raw2temp divides by: both denominators non-zero
ValidCalibration(o) ==
  /\ o._hotTemperature > o._roomTemperature
  /\ o._hotVoltageCompensated # o._roomVoltageCompensated

(***************************************************************************)
(* User calibration.                                                       *)
(***************************************************************************)
\* the offset taken to be the cold measurement alone
UserCalOffsetColdOnly(coldTruth, coldMeas, hotTruth, hotMeas) == coldMeas

\* _userCalOffsetCorrection of setUserCalibration2P
UserCalOffset2P(coldTruth, coldMeas, hotTruth, hotMeas) ==
  coldMeas - MulDiv(coldTruth, hotMeas - coldMeas, hotTruth - coldTruth)

\* the gain computed without the offset
UserCalGainNoOffset(coldTruth, coldMeas, hotTruth, hotMeas) ==
  FDiv(hotTruth, hotMeas)

\* _userCalGainCorrection of setUserCalibration2P
UserCalGain2P(coldTruth, coldMeas, hotTruth, hotMeas) ==
  FDiv(hotTruth, hotMeas - UserCalOffset2P(coldTruth, coldMeas, hotTruth, hotMeas))

\* TemperatureZero::setUserCalibration2P
setUserCalibration2P(o, coldTruth, coldMeas, hotTruth, hotMeas, isEnabled) ==
  [o EXCEPT
     !._userCalOffsetCorrection = UserCalOffset2P(coldTruth, coldMeas, hotTruth, hotMeas),
     !._userCalGainCorrection = UserCalGain2P(coldTruth, coldMeas, hotTruth, hotMeas),
     !._isUserCalEnabled = isEnabled]

\* TemperatureZero::setUserCalibration
setUserCalibration(o, gain, offset, isEnabled) ==
  [o EXCEPT !._userCalOffsetCorrection = offset,
            !._userCalGainCorrection = gain,
            !._isUserCalEnabled = isEnabled]

\* a disable that also resets the stored gain and offset
enableUserCalibrationResets(o, isEnabled) ==
  IF isEnabled THEN [o EXCEPT !._isUserCalEnabled = TRUE]
  ELSE [o EXCEPT !._isUserCalEnabled = FALSE,
                 !._userCalGainCorrection = ToFloat(1),
                 !._userCalOffsetCorrection = 0]

\* TemperatureZero::enableUserCalibration
enableUserCalibration(o, isEnabled) == [o EXCEPT !._isUserCalEnabled = isEnabled]

\* TemperatureZero::setAveraging(uint8_t averaging)
setAveraging(o, averaging) == [o EXCEPT !._averaging = U8(averaging)]

\* the arguments the calibration setters are called with (degrees, plain numbers)
TwoPointInputs == {<<0, 2, 100, 98>>, <<10, 12, 100, 98>>}

GainOffsetInputs == {<<ToFloat(1), 0>>, <<IDiv(3, 2), ToFloat(2)>>}

(***************************************************************************)
(* The ADC peripheral.                                                     *)
(***************************************************************************)
\* the register a field belongs to
Reg(field) ==
  CASE field \in {"GAIN", "MUXPOS", "MUXNEG"} -> "INPUTCTRL"
    [] field = "ENABLE" -> "CTRLA"
    [] field = "START" -> "SWTRIG"
    [] field = "REFSEL" -> "REFCTRL"
    [] field = "RESRDY" -> "INTFLAG"
    [] OTHER -> field

\* the ADC registers whose writes are synchronized to the ADC clock domain
WriteSynchronized == {"CTRLA", "CTRLB", "INPUTCTRL", "AVGCTRL", "SWTRIG"}

\* a write of val to a register or field of the ADC a
AdcWrite(a, field, val) ==
  [a EXCEPT ![field] = val,
            !.SYNCBUSY = IF Reg(field) \in WriteSynchronized THEN 1 ELSE @]

\* a flag write that clears nothing
ClearNothing(a) == a

\* ADC->INTFLAG.reg = ADC_INTFLAG_RESRDY: writing the flag clears it
ClearResultReady(a) == AdcWrite(a, "RESRDY", 0)

\* the enable bit written with 1 at the end of the read
AdcKeepEnabled(a) == AdcWrite(a, "ENABLE", 1)

\* ADC->CTRLA.bit.ENABLE = 0 also drops a pending conversion
AdcDisable(a) == [AdcWrite(a, "ENABLE", 0) EXCEPT !.START = 0]

\* reading RESULT clears the result-ready flag
AdcReadResult(a) == [a EXCEPT !.RESRDY = 0]

\* the RESULT of a conversion whose samples all read `sample`: 2^SAMPLENUM
\* samples are accumulated, sums of more than 16 samples are shifted right
\* to 16 bits, and the result is shifted right by ADJRES
ConversionResult(avgctrl, sample) ==
  LET k    == AvgSampleNum(avgctrl)
      auto == IF k > 4 THEN k - 4 ELSE 0
  IN  U16(Shr(Shr(Pow2(k) * sample, auto), AvgAdjRes(avgctrl)))

\* configurations the application leaves the ADC in between calls
AdcConfig(ctrlb, sampctrl, gain, refsel, muxpos, muxneg, enable, avgctrl) ==
  [CTRLB |-> ctrlb, SAMPCTRL |-> sampctrl, GAIN |-> gain, REFSEL |-> refsel,
   MUXPOS |-> muxpos, MUXNEG |-> muxneg, ENABLE |-> enable, AVGCTRL |-> avgctrl,
   RESULT |-> 0, RESRDY |-> 0, SYNCBUSY |-> 0, START |-> 0]

\* 10 bit, clock / 512, gain 1/2, reference VCC / 2, ADC disabled
CoreAdc == AdcConfig(1824, 63, 15, 2, 0, 24, 0, 0)

\* 16 bit, clock / 64, gain 2x, external reference, accumulating 2 samples
\* without a shift (oversampling), ADC enabled on another input
AppAdc == AdcConfig(1040, 10, 1, 3, 2, 1, 1, 1)

AdcPresets == {CoreAdc, AppAdc}

(***************************************************************************)
(* The switch over _averaging in readInternalTemperatureRaw: the value     *)
(* written to AVGCTRL, or -1 when no case matches and nothing is written.  *)
(***************************************************************************)
\* the switch with the shift growing past 16 samples, and the switch with a
\* default case that turns averaging off
AveragingSwitchShift5(averaging) ==
  CASE averaging = TZ_AVERAGING(1) -> 0
    [] averaging \in {TZ_AVERAGING(n) : n \in {2, 4, 8, 16}} ->
         LET n == CHOOSE m \in {2, 4, 8, 16} : TZ_AVERAGING(m) = averaging
         IN  BitOr(ADC_AVGCTRL_SAMPLENUM(n), ADC_AVGCTRL_ADJRES(ADC_AVGCTRL_SAMPLENUM(n)))
    [] averaging \in {TZ_AVERAGING(n) : n \in {32, 64, 128, 256}} ->
         LET n == CHOOSE m \in {32, 64, 128, 256} : TZ_AVERAGING(m) = averaging
         IN  BitOr(ADC_AVGCTRL_SAMPLENUM(n), ADC_AVGCTRL_ADJRES(5))
    [] OTHER -> -1

AveragingSwitchDefault0(averaging) ==
  CASE averaging \in {TZ_AVERAGING(n) : n \in {1, 2, 4, 8}} ->
         LET n == CHOOSE m \in {1, 2, 4, 8} : TZ_AVERAGING(m) = averaging
         IN  BitOr(ADC_AVGCTRL_SAMPLENUM(n), ADC_AVGCTRL_ADJRES(ADC_AVGCTRL_SAMPLENUM(n)))
    [] averaging \in {TZ_AVERAGING(n) : n \in {16, 32, 64, 128, 256}} ->
         LET n == CHOOSE m \in {16, 32, 64, 128, 256} : TZ_AVERAGING(m) = averaging
         IN  BitOr(ADC_AVGCTRL_SAMPLENUM(n), ADC_AVGCTRL_ADJRES(4))
    [] OTHER -> 0

AveragingSwitch(averaging) ==
  CASE averaging = TZ_AVERAGING(1) -> 0
    [] averaging = TZ_AVERAGING(2) ->
         BitOr(ADC_AVGCTRL_SAMPLENUM(2), ADC_AVGCTRL_ADJRES(1))
    [] averaging = TZ_AVERAGING(4) ->
         BitOr(ADC_AVGCTRL_SAMPLENUM(4), ADC_AVGCTRL_ADJRES(2))
    [] averaging = TZ_AVERAGING(8) ->
         BitOr(ADC_AVGCTRL_SAMPLENUM(8), ADC_AVGCTRL_ADJRES(3))
    [] averaging = TZ_AVERAGING(16) ->
         BitOr(ADC_AVGCTRL_SAMPLENUM(16), ADC_AVGCTRL_ADJRES(4))
    [] averaging = TZ_AVERAGING(32) ->
         BitOr(ADC_AVGCTRL_SAMPLENUM(32), ADC_AVGCTRL_ADJRES(4))
    [] averaging = TZ_AVERAGING(64) ->
         BitOr(ADC_AVGCTRL_SAMPLENUM(64), ADC_AVGCTRL_ADJRES(4))
    [] averaging = TZ_AVERAGING(128) ->
         BitOr(ADC_AVGCTRL_SAMPLENUM(128), ADC_AVGCTRL_ADJRES(4))
    [] averaging = TZ_AVERAGING(256) ->
         BitOr(ADC_AVGCTRL_SAMPLENUM(256), ADC_AVGCTRL_ADJRES(4))
    [] OTHER -> -1

(***************************************************************************)
(* State.                                                                  *)
(*   ADC, VREF  the ADC registers and the SYSCTRL VREF register            *)
(*   fuses      the factory calibration fuses (read only)                  *)
(*   obj        the TemperatureZero object                                 *)
(*   pc, op     the position of the running call and the public operation  *)
(*              it belongs to                                              *)
(*   locals     the locals of readInternalTemperatureRaw                   *)
(*   ret        the value the last call returned                           *)
(*   hist       history of the running call: the register accesses and     *)
(*              waits in order, the conversions triggered, the conversion  *)
(*              RESULT and adcReading stem from, the value written to      *)
(*              AVGCTRL; whether init has returned, and the averaging      *)
(*              last asked for (by init or setAveraging)                   *)
(*   entry      ADC, VREF and obj as they were when the call began         *)
(***************************************************************************)
VARIABLES ADC, VREF, fuses, obj, pc, op, locals, ret, hist, entry

vars == <<ADC, VREF, fuses, obj, pc, op, locals, ret, hist, entry>>

NoLocals ==
  [oldReadResolution |-> 0, oldSampling |-> 0, oldSampleAveraging |-> 0,
   oldReferenceGain |-> 0, oldReferenceSelect |-> 0, adcReading |-> 0]

NoRet == [kind |-> "none", val |-> 0]

NoHist(h) ==
  [log |-> <<>>, triggers |-> 0, resultConv |-> 0, readConv |-> 0,
   avgWritten |-> -1, initialised |-> h.initialised, requested |-> h.requested]

Snapshot(a, v, o) == [ADC |-> a, VREF |-> v, obj |-> o]

\* the object as the empty constructor leaves it: its fields are indeterminate
ObjAfterConstructor ==
  {[_averaging |-> 0, _isUserCalEnabled |-> FALSE,
    _userCalGainCorrection |-> 0, _userCalOffsetCorrection |-> 0,
    _roomTemperature |-> 0, _hotTemperature |-> 0,
    _roomReading |-> 0, _hotReading |-> 0,
    _roomInt1vRef |-> 0, _hotInt1vRef |-> 0,
    _roomVoltageCompensated |-> 0, _hotVoltageCompensated |-> 0],
   [_averaging |-> 200, _isUserCalEnabled |-> TRUE,
    _userCalGainCorrection |-> ToFloat(2), _userCalOffsetCorrection |-> IDiv(3, 2),
    _roomTemperature |-> ToFloat(7), _hotTemperature |-> ToFloat(7),
    _roomReading |-> 65535, _hotReading |-> 1,
    _roomInt1vRef |-> 5, _hotInt1vRef |-> 5,
    _roomVoltageCompensated |-> 3, _hotVoltageCompensated |-> 3]}

\* VREF before init: TSEN clear or set, another bit (BGOUTEN, 4) set or not
VrefValues == {0, 2, 4, 6}

InitWith(fs, os, vs, as) ==
  /\ fuses \in fs
  /\ obj \in os
  /\ VREF \in vs
  /\ ADC \in as
  /\ pc = "idle"
  /\ op = "none"
  /\ locals = NoLocals
  /\ ret = NoRet
  /\ hist = NoHist([initialised |-> FALSE, requested |-> -1])
  /\ entry = Snapshot(ADC, VREF, obj)

Log(events) == [hist EXCEPT !.log = @ \o events]

(***************************************************************************)
(* init and wakeup                                                         *)
(***************************************************************************)
\* the enable written with ^= instead of |=
ToggleSensor(v) ==
  IF BitSet(v, SYSCTRL_VREF_TSEN) THEN v - SYSCTRL_VREF_TSEN ELSE v + SYSCTRL_VREF_TSEN

\* SYSCTRL->VREF.reg |= SYSCTRL_VREF_TSEN
EnableSensor(v) == BitOr(v, SYSCTRL_VREF_TSEN)

\* an init that leaves the user calibration flag as it is
InitSettingsKeepsFlag(o, f) ==
  getFactoryCalibration([o EXCEPT !._averaging = U8(TZ_AVERAGING(64))], f)

\* init(), lines 16-18: the default averaging, the user calibration flag and
\* the factory calibration
InitSettings(o, f) ==
  getFactoryCalibration(
    [o EXCEPT !._averaging = U8(TZ_AVERAGING(64)), !._isUserCalEnabled = FALSE], f)

InitCall ==
  /\ pc = "idle"
  /\ obj' = InitSettings(obj, fuses)
  /\ pc' = "init19"
  /\ op' = "init"
  /\ entry' = Snapshot(ADC, VREF, obj)
  /\ hist' = [NoHist(hist) EXCEPT !.log = <<"averaging", "usercal", "factory">>,
                                  !.requested = TZ_AVERAGING(64)]
  /\ UNCHANGED <<ADC, VREF, fuses, locals, ret>>

\* init(), line 19: the call of wakeup(), up to its wait
InitWakeup ==
  /\ pc = "init19"
  /\ VREF' = EnableSensor(VREF)
  /\ pc' = "wake25"
  /\ hist' = Log(<<"W_VREF">>)
  /\ UNCHANGED <<ADC, fuses, obj, op, locals, ret, entry>>

\* wakeup(), up to its wait
WakeupCall ==
  /\ pc = "idle"
  /\ VREF' = EnableSensor(VREF)
  /\ pc' = "wake25"
  /\ op' = "wakeup"
  /\ entry' = Snapshot(ADC, VREF, obj)
  /\ hist' = [NoHist(hist) EXCEPT !.log = <<"W_VREF">>]
  /\ UNCHANGED <<ADC, fuses, obj, locals, ret>>

\* the wait of wakeup() ends; wakeup(), and init() when it was the caller, return
Wake_w25 ==
  /\ pc = "wake25"
  /\ ADC.SYNCBUSY # 1
  /\ pc' = "returned"
  /\ ret' = [kind |-> "void", val |-> 0]
  /\ hist' = [Log(<<"sync">>) EXCEPT !.initialised = @ \/ op = "init"]
  /\ UNCHANGED <<ADC, VREF, fuses, obj, op, locals, entry>>

(***************************************************************************)
(* The setters: no waits, one step each.                                   *)
(***************************************************************************)
Setter(o, h) ==
  /\ pc = "idle"
  /\ obj' = o
  /\ hist' = h
  /\ entry' = Snapshot(ADC, VREF, o)
  /\ UNCHANGED <<ADC, VREF, fuses, pc, op, locals, ret>>

SetAveraging(averaging) ==
  Setter(setAveraging(obj, averaging), [hist EXCEPT !.requested = averaging])

SetUserCalibration2P(in, isEnabled) ==
  Setter(setUserCalibration2P(obj, ToFloat(in[1]), ToFloat(in[2]),
                              ToFloat(in[3]), ToFloat(in[4]), isEnabled), hist)

SetUserCalibration(in, isEnabled) ==
  Setter(setUserCalibration(obj, in[1], in[2], isEnabled), hist)

EnableUserCalibration(isEnabled) ==
  Setter(enableUserCalibration(obj, isEnabled), hist)

(***************************************************************************)
(* readInternalTemperatureRaw, and readInternalTemperature which calls it. *)
(* Raw_wN is the exit of the wait at line N and the statements up to the   *)
(* next wait.                                                              *)
(***************************************************************************)
\* lines 128-132: the settings saved on entry
SaveSettings(a) ==
  [oldReadResolution |-> U16(a.CTRLB),
   oldSampling |-> U16(a.SAMPCTRL),
   oldSampleAveraging |-> U16(a.SAMPCTRL),
   oldReferenceGain |-> U16(a.GAIN),
   oldReferenceSelect |-> U16(a.REFSEL),
   adcReading |-> 0]

\* line 203
RestoreResolution(a, l) == AdcWrite(a, "CTRLB", l.oldReadResolution)

\* a restore that writes the second saved value to AVGCTRL
RestoreSamplingAndAveraging(a, l) ==
  AdcWrite(AdcWrite(a, "SAMPCTRL", l.oldSampling % 256), "AVGCTRL",
           l.oldSampleAveraging % 256)

\* lines 205-206
RestoreSampling(a, l) ==
  AdcWrite(AdcWrite(a, "SAMPCTRL", l.oldSampling % 256), "SAMPCTRL",
           l.oldSampleAveraging % 256)

\* a restore that writes the saved reference select to the gain and back
RestoreReferenceSwapped(a, l) ==
  AdcWrite(AdcWrite(a, "GAIN", l.oldReferenceSelect % 16), "REFSEL",
           l.oldReferenceGain % 16)

\* lines 208-209
RestoreReference(a, l) ==
  AdcWrite(AdcWrite(a, "GAIN", l.oldReferenceGain % 16), "REFSEL",
           l.oldReferenceSelect % 16)

\* lines 142-147: gain 1x, internal 1 V reference (the muxes follow a wait)
SetReference(a) ==
  AdcWrite(AdcWrite(a, "GAIN", ADC_INPUTCTRL_GAIN_1X_Val), "REFSEL",
           ADC_REFCTRL_REFSEL_INT1V_Val)

SetInputs(a) ==
  AdcWrite(AdcWrite(a, "MUXPOS", ADC_INPUTCTRL_MUXPOS_TEMP_Val), "MUXNEG",
           ADC_INPUTCTRL_MUXNEG_GND_Val)

\* SWTRIG written without the START bit
AdcTriggerNoStart(a) == [a EXCEPT !.SYNCBUSY = 1]

\* ADC->SWTRIG.bit.START = 1
AdcTrigger(a) == AdcWrite(a, "START", 1)

\* lines 159-187 applied to the ADC
SetAveragingRegister(a, averaging) ==
  IF AveragingSwitch(averaging) = -1 THEN a
  ELSE AdcWrite(a, "AVGCTRL", AveragingSwitch(averaging))

RawCall(o) ==
  /\ pc = "idle"
  /\ hist.initialised
  /\ op' = o
  /\ locals' = SaveSettings(ADC)
  /\ ADC' = AdcWrite(ADC, "CTRLB",
                     BitOr(ADC_CTRLB_RESSEL_12BIT, ADC_CTRLB_PRESCALER_DIV256))
  /\ pc' = "raw137"
  /\ entry' = Snapshot(ADC, VREF, obj)
  /\ hist' = [NoHist(hist) EXCEPT !.log = <<"W_CTRLB">>]
  /\ UNCHANGED <<VREF, fuses, obj, ret>>

\* a step of the call: the wait at pc = from ends (STATUS.SYNCBUSY clear)
SyncStep(from, to, a, events) ==
  /\ pc = from
  /\ ADC.SYNCBUSY # 1
  /\ ADC' = a
  /\ pc' = to
  /\ hist' = Log(<<"sync">> \o events)
  /\ UNCHANGED <<VREF, fuses, obj, op, locals, ret, entry>>

Raw_w137 ==
  SyncStep("raw137", "raw140",
           AdcWrite(ADC, "SAMPCTRL", ADC_SAMPCTRL_SAMPLEN(63)), <<"W_SAMPCTRL">>)

Raw_w140 ==
  SyncStep("raw140", "raw144", SetReference(ADC), <<"W_GAIN", "W_REFSEL">>)

Raw_w144 ==
  SyncStep("raw144", "raw148", SetInputs(ADC), <<"W_MUXPOS", "W_MUXNEG">>)

Raw_w148 ==
  SyncStep("raw148", "raw151", AdcWrite(ADC, "ENABLE", 1), <<"W_ENABLE">>)

\* line 153: the first conversion is triggered
Raw_w151 ==
  /\ pc = "raw151"
  /\ ADC.SYNCBUSY # 1
  /\ ADC' = AdcTrigger(ADC)
  /\ pc' = "raw155"
  /\ hist' = [Log(<<"sync", "W_SWTRIG">>) EXCEPT !.triggers = @ + 1]
  /\ UNCHANGED <<VREF, fuses, obj, op, locals, ret, entry>>

\* lines 155-187: result ready; the flag is cleared, the result is not read,
\* then the averaging is set
Raw_w155 ==
  /\ pc = "raw155"
  /\ ADC.RESRDY = 1
  /\ ADC' = SetAveragingRegister(ClearResultReady(ADC), obj._averaging)
  /\ pc' = "raw188"
  /\ hist' = [Log(<<"rdy", "W_INTFLAG">>
                  \o (IF AveragingSwitch(obj._averaging) # -1
                      THEN <<"W_AVGCTRL">> ELSE <<>>))
                EXCEPT !.avgWritten = AveragingSwitch(obj._averaging)]
  /\ UNCHANGED <<VREF, fuses, obj, op, locals, ret, entry>>

\* line 190: the second conversion is triggered
Raw_w188 ==
  /\ pc = "raw188"
  /\ ADC.SYNCBUSY # 1
  /\ ADC' = AdcTrigger(ADC)
  /\ pc' = "raw192"
  /\ hist' = [Log(<<"sync", "W_SWTRIG">>) EXCEPT !.triggers = @ + 1]
  /\ UNCHANGED <<VREF, fuses, obj, op, locals, ret, entry>>

Raw_w192 ==
  /\ pc = "raw192"
  /\ ADC.RESRDY = 1
  /\ pc' = "raw193"
  /\ hist' = Log(<<"rdy">>)
  /\ UNCHANGED <<ADC, VREF, fuses, obj, op, locals, ret, entry>>

\* lines 195-197: the result is read and the flag cleared
Raw_w193 ==
  /\ pc = "raw193"
  /\ ADC.SYNCBUSY # 1
  /\ locals' = [locals EXCEPT !.adcReading = U16(ADC.RESULT)]
  /\ ADC' = ClearResultReady(AdcReadResult(ADC))
  /\ pc' = "raw198"
  /\ hist' = [Log(<<"sync", "R_RESULT", "W_INTFLAG">>) EXCEPT !.readConv = hist.resultConv]
  /\ UNCHANGED <<VREF, fuses, obj, op, ret, entry>>

Raw_w198 == SyncStep("raw198", "raw201", AdcDisable(ADC), <<"W_ENABLE">>)

Raw_w201 ==
  SyncStep("raw201", "raw204", RestoreResolution(ADC, locals), <<"W_CTRLB">>)

Raw_w204 ==
  SyncStep("raw204", "raw207", RestoreSampling(ADC, locals),
           <<"W_SAMPCTRL", "W_SAMPCTRL">>)

Raw_w207 ==
  SyncStep("raw207", "raw210", RestoreReference(ADC, locals),
           <<"W_GAIN", "W_REFSEL">>)

\* line 211: return adcReading; readInternalTemperature returns
\* raw2temp(adcReading)
Raw_w210 ==
  /\ pc = "raw210"
  /\ ADC.SYNCBUSY # 1
  /\ pc' = "returned"
  /\ ret' = IF op = "readTemp"
            THEN [kind |-> "temp", val |-> raw2temp(obj, locals.adcReading)]
            ELSE [kind |-> "raw", val |-> locals.adcReading]
  /\ hist' = Log(<<"sync">>)
  /\ UNCHANGED <<ADC, VREF, fuses, obj, op, locals, entry>>

\* raw2temp called directly
Raw2TempCall(adcReading) ==
  /\ pc = "idle"
  /\ hist.initialised
  /\ op' = "raw2temp"
  /\ locals' = [NoLocals EXCEPT !.adcReading = adcReading]
  /\ ret' = [kind |-> "temp", val |-> raw2temp(obj, adcReading)]
  /\ pc' = "returned"
  /\ entry' = Snapshot(ADC, VREF, obj)
  /\ hist' = NoHist(hist)
  /\ UNCHANGED <<ADC, VREF, fuses, obj>>

\* the caller takes the result; the call's frame is gone
Resume ==
  /\ pc = "returned"
  /\ pc' = "idle"
  /\ op' = "none"
  /\ locals' = NoLocals
  /\ ret' = NoRet
  /\ hist' = NoHist(hist)
  /\ entry' = Snapshot(ADC, VREF, obj)
  /\ UNCHANGED <<ADC, VREF, fuses, obj>>

(***************************************************************************)
(* The environment: the ADC hardware, and the application that shares the  *)
(* ADC between calls.                                                      *)
(***************************************************************************)
\* the written registers have reached the ADC clock domain
HwSync ==
  /\ ADC.SYNCBUSY = 1
  /\ ADC' = [ADC EXCEPT !.SYNCBUSY = 0]
  /\ UNCHANGED <<VREF, fuses, obj, pc, op, locals, ret, hist, entry>>

\* a triggered conversion completes
HwConvert(sample) ==
  /\ ADC.START = 1
  /\ ADC.ENABLE = 1
  /\ ADC' = [ADC EXCEPT !.START = 0, !.RESRDY = 1,
                        !.RESULT = ConversionResult(ADC.AVGCTRL, sample)]
  /\ hist' = [hist EXCEPT !.resultConv = hist.triggers]
  /\ UNCHANGED <<VREF, fuses, obj, pc, op, locals, ret, entry>>

\* the application reconfigures the ADC for its own use
AppConfigure(p) ==
  /\ pc = "idle"
  /\ ADC' = [p EXCEPT !.RESULT = ADC.RESULT, !.SYNCBUSY = 1]
  /\ entry' = Snapshot(ADC', VREF, obj)
  /\ UNCHANGED <<VREF, fuses, obj, pc, op, locals, ret, hist>>

(***************************************************************************)
(* Spec: the ADC driver.  init, wakeup, setAveraging with every argument   *)
(* and readInternalTemperatureRaw, on an ADC the application reconfigures  *)
(* between calls.                                                          *)
(***************************************************************************)
RawSteps ==
  \/ Raw_w137
  \/ Raw_w140
  \/ Raw_w144
  \/ Raw_w148
  \/ Raw_w151
  \/ Raw_w155
  \/ Raw_w188
  \/ Raw_w192
  \/ Raw_w193
  \/ Raw_w198
  \/ Raw_w201
  \/ Raw_w204
  \/ Raw_w207
  \/ Raw_w210

Next ==
  \/ InitCall
  \/ InitWakeup
  \/ WakeupCall
  \/ Wake_w25
  \/ \E a \in AvgArgs : SetAveraging(a)
  \/ RawCall("readRaw")
  \/ RawSteps
  \/ Resume
  \/ HwSync
  \/ \E s \in Samples : HwConvert(s)
  \/ \E p \in AdcPresets : AppConfigure(p)

Init == InitWith({SyntheticFuses}, ObjAfterConstructor, {4}, AdcPresets)

Spec == Init /\ [][Next]_vars

(***************************************************************************)
(* SpecLib: every public operation, in any order, on any of the chips.     *)
(* The ADC is the application's only at the start, a conversion samples    *)
(* one level, and the setters take few arguments.                          *)
(***************************************************************************)
LibAvgArgs == {TZ_AVERAGING(1), TZ_AVERAGING(256), 0}

LibSample == 2000

NextLib ==
  \/ InitCall
  \/ InitWakeup
  \/ WakeupCall
  \/ Wake_w25
  \/ \E a \in LibAvgArgs : SetAveraging(a)
  \/ \E in \in {<<0, 2, 100, 98>>} : SetUserCalibration2P(in, TRUE)
  \/ \E in \in {<<ToFloat(1), 0>>} : SetUserCalibration(in, FALSE)
  \/ \E b \in BOOLEAN : EnableUserCalibration(b)
  \/ \E o \in {"readRaw", "readTemp"} : RawCall(o)
  \/ RawSteps
  \/ Resume
  \/ HwSync
  \/ HwConvert(LibSample)

InitLib == InitWith(FuseSets, ObjAfterConstructor, VrefValues, {AppAdc})

SpecLib == InitLib /\ [][NextLib]_vars

(***************************************************************************)
(* SpecConv: the converter.  init on any of the chips, the calibration     *)
(* setters, and raw2temp applied to the readings RawInputs.                *)
(***************************************************************************)
RawInputs == {0, 1000, 2000, 2500, 3000, 4095}

FuseReadings(f) == {f.ROOM_ADC_VAL, f.HOT_ADC_VAL}

NextConv ==
  \/ InitCall
  \/ InitWakeup
  \/ Wake_w25
  \/ \E in \in TwoPointInputs, b \in BOOLEAN : SetUserCalibration2P(in, b)
  \/ \E in \in GainOffsetInputs, b \in BOOLEAN : SetUserCalibration(in, b)
  \/ \E b \in BOOLEAN : EnableUserCalibration(b)
  \/ \E r \in RawInputs \cup FuseReadings(fuses) : Raw2TempCall(r)
  \/ Resume

InitConv == InitWith(FuseSets, ObjAfterConstructor, {0}, {CoreAdc})

SpecConv == InitConv /\ [][NextConv]_vars

(***************************************************************************)
(* Properties of the ADC driver (checked under Spec).                      *)
(***************************************************************************)
\* the call of readInternalTemperatureRaw has returned
RawReturned == pc = "returned" /\ op \in {"readRaw", "readTemp"}

\* the positions of event e in the log
Occ(e) == {i \in DOMAIN hist.log : hist.log[i] = e}

\* the position of the k-th e in the log (0 when there is none)
Kth(e, k) ==
  IF Cardinality(Occ(e)) < k THEN 0
  ELSE CHOOSE i \in Occ(e) : Cardinality({j \in Occ(e) : j <= i}) = k

\* the settings the driver saves and restores are those of the call's entry
SettingsAsOnEntry ==
  /\ ADC.CTRLB = entry.ADC.CTRLB
  /\ ADC.SAMPCTRL = entry.ADC.SAMPCTRL
  /\ ADC.GAIN = entry.ADC.GAIN
  /\ ADC.REFSEL = entry.ADC.REFSEL

\* C1: when readInternalTemperatureRaw returns, CTRLB, SAMPCTRL,
\* INPUTCTRL.GAIN and REFCTRL.REFSEL hold the values they held on entry,
\* whatever the ADC configuration on entry and the averaging setting.
C1_SettingsRestored == RawReturned => SettingsAsOnEntry

\* a call has returned that began on the application's configuration, all
\* four settings differing from those of a temperature read, with an
\* averaging setting that is no mode
C1_Witness ==
  /\ RawReturned
  /\ entry.ADC.CTRLB = AppAdc.CTRLB
  /\ entry.ADC.SAMPCTRL = AppAdc.SAMPCTRL
  /\ entry.ADC.GAIN = AppAdc.GAIN
  /\ entry.ADC.REFSEL = AppAdc.REFSEL
  /\ obj._averaging \notin ValidAveraging

\* the ADC is set up for a temperature read: 12 bit, internal 1 V reference,
\* temperature input against ground, enabled
TemperatureSetup ==
  /\ ADC.CTRLB = ADC_CTRLB_PRESCALER_DIV256
  /\ ADC.REFSEL = ADC_REFCTRL_REFSEL_INT1V_Val
  /\ ADC.GAIN = ADC_INPUTCTRL_GAIN_1X_Val
  /\ ADC.MUXPOS = ADC_INPUTCTRL_MUXPOS_TEMP_Val
  /\ ADC.MUXNEG = ADC_INPUTCTRL_MUXNEG_GND_Val
  /\ ADC.ENABLE = 1

C3_RawIs12Bit == (RawReturned /\ op = "readRaw") => ret.val \in 0..4095

\* the positions of the log that write an ADC register or read RESULT
AdcAccesses ==
  {i \in DOMAIN hist.log :
     hist.log[i] \in {"W_CTRLB", "W_SAMPCTRL", "W_GAIN", "W_REFSEL", "W_MUXPOS",
                      "W_MUXNEG", "W_ENABLE", "W_SWTRIG", "W_INTFLAG",
                      "W_AVGCTRL", "R_RESULT"}}

\* the positions of the log that write a write-synchronized ADC register
SynchronizedWrites ==
  {i \in DOMAIN hist.log :
     hist.log[i] \in {"W_CTRLB", "W_GAIN", "W_MUXPOS", "W_MUXNEG", "W_ENABLE",
                      "W_SWTRIG", "W_AVGCTRL"}}

\* C4 (as claimed): every write to a write-synchronized ADC register is
\* followed by a wait for STATUS.SYNCBUSY before the next write to an ADC
\* register and before RESULT is read.
C4_SyncAfterEveryWrite ==
  \A i \in SynchronizedWrites : \A j \in AdcAccesses :
    i < j => \E k \in Occ("sync") : i < k /\ k < j

\* the AVGCTRL value of a mode: no averaging for 1 sample, else SAMPLENUM
\* selecting n samples with the shift 1, 2, 3 for 2, 4, 8 and 4 from 16 on
ExpectedAvgctrl(n) ==
  CASE n = 1 -> 0
    [] n = 2 -> 1 + 16 * 1
    [] n = 4 -> 2 + 16 * 2
    [] n = 8 -> 3 + 16 * 3
    [] n = 16 -> 4 + 16 * 4
    [] n = 32 -> 5 + 16 * 4
    [] n = 64 -> 6 + 16 * 4
    [] n = 128 -> 7 + 16 * 4
    [] n = 256 -> 8 + 16 * 4

\* the call is past the switch over _averaging
PastSwitch ==
  /\ op = "readRaw"
  /\ pc \in {"raw188", "raw192", "raw193", "raw198", "raw201", "raw204",
             "raw207", "raw210", "returned"}

\* C5: for each of the nine modes, the value the read writes to AVGCTRL
\* between the two conversions is the mode's value, and the mode is the one
\* last asked for, by setAveraging or by init (64 samples).
C5_AvgctrlOfMode ==
  \A n \in SampleCounts :
    (PastSwitch /\ hist.requested = TZ_AVERAGING(n)) =>
      /\ hist.avgWritten = ExpectedAvgctrl(n)
      /\ Cardinality(Occ("W_AVGCTRL")) = 1
      /\ pc \in {"raw188", "raw192", "raw193"} => ADC.AVGCTRL = ExpectedAvgctrl(n)

\* a read has returned after setAveraging asked for 256 samples, on an ADC
\* that averaged differently before
C5_Witness ==
  /\ RawReturned
  /\ hist.requested = TZ_AVERAGING(256)
  /\ hist.avgWritten = 72
  /\ entry.ADC.AVGCTRL = 1

\* C6: with an averaging setting that is none of the nine modes the read
\* never writes AVGCTRL, which keeps its value of the call's entry; the
\* call still returns a count after two conversions and restores the saved
\* settings.
C6_InvalidAveraging ==
  (op = "readRaw" /\ pc # "idle" /\ obj._averaging \notin ValidAveraging) =>
     /\ ADC.AVGCTRL = entry.ADC.AVGCTRL
     /\ Occ("W_AVGCTRL") = {}
     /\ pc = "returned" =>
          /\ ret.kind = "raw"
          /\ hist.triggers = 2
          /\ Cardinality(Occ("rdy")) = 2
          /\ hist.readConv = 2
          /\ SettingsAsOnEntry

\* a read with an averaging setting that is no mode has returned, on an ADC
\* whose AVGCTRL was not 0
C6_Witness ==
  /\ RawReturned
  /\ obj._averaging \notin ValidAveraging
  /\ entry.ADC.AVGCTRL = 1
  /\ hist.triggers = 2

(***************************************************************************)
(* Properties of init and wakeup (checked under SpecLib).                  *)
(***************************************************************************)
\* the factory calibration fields of the object
FactoryOf(o) ==
  <<o._roomTemperature, o._hotTemperature, o._roomReading, o._hotReading,
    o._roomInt1vRef, o._hotInt1vRef,
    o._roomVoltageCompensated, o._hotVoltageCompensated>>

\* the factory calibration of each chip, in millionths: the temperatures
\* integer + fraction, the readings, the references 1 - delta / 1000 and
\* the compensated voltages reading * reference / 4095
ExpectedFactory(f) ==
  CASE f = SyntheticFuses ->
         <<25000000, 85000000, 2000, 3000, 1000000, 990000, 488400, 725275>>
    [] f = ChipFuses ->
         <<29800000, 84700000, 2792, 3315, 1003000, 996000, 683853, 806286>>
    [] f = HotUnityFuses ->
         <<30100000, 85100000, 2700, 3300, 1010000, 1000000, 665934, 805861>>
    [] f = RoomUnityFuses ->
         <<24900000, 90200000, 2650, 3400, 1000000, 1012000, 647131, 840244>>

SensorEnabled == BitSet(VREF, SYSCTRL_VREF_TSEN)

\* C7: when init returns, from any prior state of the object, the averaging
\* is the 64-sample mode, user calibration is disabled, the factory
\* calibration fields hold the values derived from the fuses and TSEN is
\* set; the factory fields are loaded before init enables the sensor.
C7_AfterInit ==
  /\ (pc = "returned" /\ op = "init") =>
       /\ obj._averaging = TZ_AVERAGING(64)
       /\ obj._isUserCalEnabled = FALSE
       /\ FactoryOf(obj) = ExpectedFactory(fuses)
       /\ SensorEnabled
       /\ Kth("factory", 1) > 0
       /\ Kth("factory", 1) < Kth("W_VREF", 1)
  /\ (op = "init" /\ pc = "wake25") => FactoryOf(obj) = ExpectedFactory(fuses)
  /\ (op = "init" /\ pc = "init19") => VREF = entry.VREF

\* init has returned on a chip whose references are both off 1 V, called on
\* an object with another averaging and an enabled two-point calibration,
\* the sensor disabled before
C7_Witness ==
  /\ pc = "returned"
  /\ op = "init"
  /\ fuses = ChipFuses
  /\ entry.obj._averaging = TZ_AVERAGING(1)
  /\ entry.obj._isUserCalEnabled
  /\ entry.obj._userCalOffsetCorrection = ToFloat(2)
  /\ ~BitSet(entry.VREF, SYSCTRL_VREF_TSEN)

\* C8: once init has returned, TSEN is set in every state the library's
\* operations reach; and wakeup called with TSEN set returns with VREF, the
\* ADC and the object as they were, so a second wakeup changes nothing.
C8_SensorStaysEnabled ==
  /\ hist.initialised => SensorEnabled
  /\ (pc = "returned" /\ op = "wakeup" /\ BitSet(entry.VREF, SYSCTRL_VREF_TSEN)) =>
       /\ VREF = entry.VREF
       /\ ADC = entry.ADC
       /\ obj = entry.obj

\* wakeup has returned a second time: after init, a temperature read and a
\* user calibration
C8_Witness ==
  /\ pc = "returned"
  /\ op = "wakeup"
  /\ hist.initialised
  /\ BitSet(entry.VREF, SYSCTRL_VREF_TSEN)
  /\ ADC.MUXPOS = ADC_INPUTCTRL_MUXPOS_TEMP_Val
  /\ obj._isUserCalEnabled

(***************************************************************************)
(* Properties of the converter (checked under SpecConv).                   *)
(***************************************************************************)
\* raw2temp has returned its result for adcReading, user calibration off
Converted(adcReading) ==
  /\ pc = "returned"
  /\ op = "raw2temp"
  /\ ~obj._isUserCalEnabled
  /\ locals.adcReading = adcReading

\* x is within tol of y
Within(x, y, tol) == Abs(x - y) <= tol

\* C9 (as claimed): with user calibration disabled raw2temp(hot reading) is
\* the hot temperature within tolerance (0.02 degrees; for the synthetic
\* calibration raw2temp(3000) in [84.98, 85.02]).
C9_HotIdentity ==
  Converted(obj._hotReading) => Within(ret.val, obj._hotTemperature, FP \div 50)

\* C9 (amended): raw2temp(hot reading) is the hot temperature within 0.01
\* degrees when the hot reference is exactly 1 V; for the synthetic
\* calibration (hot reference 0.990 V) raw2temp(3000) lies in
\* [84.92, 84.96].
C9_HotIdentityAmended ==
  Converted(obj._hotReading) =>
    /\ obj._hotInt1vRef = ToFloat(1) =>
         Within(ret.val, obj._hotTemperature, FP \div 100)
    /\ fuses = SyntheticFuses =>
         (84920000 <= ret.val /\ ret.val <= 84960000)

\* raw2temp(3000) has returned under the synthetic calibration
C9_Witness ==
  /\ Converted(3000)
  /\ fuses = SyntheticFuses
  /\ obj._hotReading = 3000
  /\ obj._hotInt1vRef = 990000

\* C10 (as claimed): for any valid factory calibration, with user
\* calibration disabled, raw2temp(room reading) differs from the room
\* temperature by at most about 0.01 degrees (checked with 0.02).
C10_RoomIdentity ==
  (Converted(obj._roomReading) /\ ValidCalibration(obj)) =>
     Within(ret.val, obj._roomTemperature, FP \div 50)

\* C10 (amended): the same, for a valid factory calibration whose room
\* reference is exactly 1 V (reference delta 0), within 0.01 degrees.
C10_RoomIdentityAmended ==
  (Converted(obj._roomReading) /\ ValidCalibration(obj)
     /\ obj._roomInt1vRef = ToFloat(1)) =>
     Within(ret.val, obj._roomTemperature, FP \div 100)

\* raw2temp(room reading) has returned on the chip with room reference 1 V
\* and hot reference 1.012 V
C10_Witness ==
  /\ Converted(2650)
  /\ fuses = RoomUnityFuses
  /\ ValidCalibration(obj)
  /\ obj._roomInt1vRef = ToFloat(1)
  /\ obj._hotInt1vRef = 1012000

(***************************************************************************)
(* SpecMono: raw2temp over its whole domain.  init on two of the chips and *)
(* on one whose reference drifts by 100 mV, then raw2temp applied to every *)
(* reading below full scale (the property compares it with the next one).  *)
(***************************************************************************)
MonoFuseSets == {SyntheticFuses, ChipFuses, DriftFuses}

MonoReadings == 0..(ADC_12BIT_FULL_SCALE_VALUE_FLOAT - 1)

NextMono ==
  \/ InitCall
  \/ InitWakeup
  \/ Wake_w25
  \/ \E r \in MonoReadings : Raw2TempCall(r)
  \/ Resume

InitMono ==
  InitWith(MonoFuseSets, {o \in ObjAfterConstructor : ~o._isUserCalEnabled},
           {0}, {CoreAdc})

SpecMono == InitMono /\ [][NextMono]_vars

(***************************************************************************)
(* Properties of the converter over its domain (checked under SpecMono).   *)
(***************************************************************************)
\* the calibration slope (T_hot - T_room) / (V_hot - V_room) is non-zero
SlopeNonZero(o) ==
  /\ o._hotTemperature # o._roomTemperature
  /\ o._hotVoltageCompensated # o._roomVoltageCompensated

\* the direction of raw2temp from reading r to r + 1: 1 up, -1 down, 0 level
Direction(o, r) == Sgn(raw2temp(o, r + 1) - raw2temp(o, r))

C12_Midpoint ==
  (Converted(2500) /\ fuses = SyntheticFuses) =>
    /\ Within(ret.val, 54900000, FP \div 10)
    /\ ret.val < ToFloat(55)

\* C12 (amended): for the synthetic calibration, user calibration disabled,
\* raw2temp(2500) is approximately 55.13 (in [55.12, 55.14]): the two-pass
\* result is slightly above the naive midpoint 55.0 and below the one-pass
\* result 55.93.
C12_MidpointAmended ==
  (Converted(2500) /\ fuses = SyntheticFuses) =>
    /\ 55120000 <= ret.val
    /\ ret.val <= 55140000
    /\ ret.val > ToFloat(55)
    /\ ret.val < CoarseTemp(obj, 2500)

\* raw2temp(2500) has returned under the synthetic calibration
C12_Witness ==
  /\ Converted(2500)
  /\ fuses = SyntheticFuses
  /\ obj._roomReading = 2000
  /\ obj._hotReading = 3000
  /\ obj._roomInt1vRef = ToFloat(1)
  /\ obj._hotInt1vRef = 990000

(***************************************************************************)
(* SpecFrac: convert_dec_to_frac applied to the decimals 0..MaxDec.  The   *)
(* caller passes an integer; the parameter is a uint8_t.                   *)
(***************************************************************************)
\* the largest decimal passed: three digits
MaxDec == 999

DecArgs == 0..MaxDec

\* convert_dec_to_frac(d) called and returned; locals holds the argument as
\* the caller passed it
FracCall(d) ==
  /\ pc = "idle"
  /\ op' = "frac"
  /\ locals' = [val |-> d]
  /\ ret' = [kind |-> "frac", val |-> convert_dec_to_frac(d)]
  /\ pc' = "returned"
  /\ entry' = Snapshot(ADC, VREF, obj)
  /\ hist' = NoHist(hist)
  /\ UNCHANGED <<ADC, VREF, fuses, obj>>

NextFrac ==
  \/ \E d \in DecArgs : FracCall(d)
  \/ Resume

InitFrac == InitWith({SyntheticFuses}, ObjAfterConstructor, {0}, {CoreAdc})

SpecFrac == InitFrac /\ [][NextFrac]_vars

\* d / 10 for one digit, d / 100 for two, d / 1000 for three
FractionOf(d) ==
  IF d < 10 THEN IDiv(d, 10) ELSE IF d < 100 THEN IDiv(d, 100) ELSE IDiv(d, 1000)

\* C13: convert_dec_to_frac(d) returns d/10 when d < 10, d/100 when
\* 10 <= d < 100 and d/1000 otherwise, for every decimal d in 0..999 (so
\* 5, 50 and 500 give 0.5, 9 gives 0.9, 99 gives 0.99 and 999 gives 0.999).
C13_FractionReconstruction ==
  (pc = "returned" /\ op = "frac" /\ locals.val <= 999) =>
    ret.val = FractionOf(locals.val)

(***************************************************************************)
(* SpecCal: the user calibration.  init, the calibration setters as calls  *)
(* that return (their arguments kept in locals, the object on entry in     *)
(* entry), and raw2temp.                                                   *)
(***************************************************************************)
\* (cold truth, cold measured, hot truth, hot measured) in degrees, with
\* hot truth # cold truth, hot measured # cold measured, hot truth # 0
Cal2PInputs ==
  {<<ct, cm, ht, hm>> : ct \in {0, 10, -5}, cm \in {2, 12, -3},
                         ht \in {100, 50}, hm \in {98, 55}}

\* setUserCalibration2P called and returned
Cal2PCall(in, isEnabled) ==
  /\ pc = "idle"
  /\ op' = "cal2p"
  /\ locals' = [coldTruth |-> ToFloat(in[1]), coldMeas |-> ToFloat(in[2]),
                hotTruth |-> ToFloat(in[3]), hotMeas |-> ToFloat(in[4]),
                isEnabled |-> isEnabled]
  /\ obj' = setUserCalibration2P(obj, ToFloat(in[1]), ToFloat(in[2]),
                                 ToFloat(in[3]), ToFloat(in[4]), isEnabled)
  /\ ret' = [kind |-> "void", val |-> 0]
  /\ pc' = "returned"
  /\ entry' = Snapshot(ADC, VREF, obj)
  /\ hist' = NoHist(hist)
  /\ UNCHANGED <<ADC, VREF, fuses>>

\* enableUserCalibration called and returned
EnableCall(isEnabled) ==
  /\ pc = "idle"
  /\ op' = "enable"
  /\ locals' = [isEnabled |-> isEnabled]
  /\ obj' = enableUserCalibration(obj, isEnabled)
  /\ ret' = [kind |-> "void", val |-> 0]
  /\ pc' = "returned"
  /\ entry' = Snapshot(ADC, VREF, obj)
  /\ hist' = NoHist(hist)
  /\ UNCHANGED <<ADC, VREF, fuses>>

CalReadings == {0, 2000, 3000, 4095}

NextCal ==
  \/ InitCall
  \/ InitWakeup
  \/ Wake_w25
  \/ \E in \in Cal2PInputs, b \in BOOLEAN : Cal2PCall(in, b)
  \/ \E in \in GainOffsetInputs : SetUserCalibration(in, TRUE)
  \/ \E b \in BOOLEAN : EnableCall(b)
  \/ \E r \in CalReadings : Raw2TempCall(r)
  \/ Resume

InitCal == InitWith({SyntheticFuses}, ObjAfterConstructor, {0, 4}, {CoreAdc})

SpecCal == InitCal /\ [][NextCal]_vars

(***************************************************************************)
(* Properties of the user calibration (checked under SpecCal).             *)
(***************************************************************************)
\* setUserCalibration2P(..., true) has returned
Cal2PReturned == pc = "returned" /\ op = "cal2p" /\ locals.isEnabled

\* the user correction of raw2temp maps the two measured temperatures to
\* their truths, within a thousandth of a degree
MapsBothPoints ==
  /\ Within(UserCorrection(obj, locals.coldMeas), locals.coldTruth, FP \div 1000)
  /\ Within(UserCorrection(obj, locals.hotMeas), locals.hotTruth, FP \div 1000)

\* C14: after setUserCalibration2P(cold truth 0, cold measured, hot truth
\* # 0, hot measured # cold measured, true) the user correction
\* (T - offset) * gain maps cold measured to 0 and hot measured to hot truth;
\* it is the correction raw2temp applies.
C14_TwoPointFromZero ==
  /\ (Cal2PReturned /\ locals.coldTruth = 0) =>
       /\ obj._isUserCalEnabled
       /\ Within(UserCorrection(obj, locals.coldMeas), 0, FP \div 1000)
       /\ Within(UserCorrection(obj, locals.hotMeas), locals.hotTruth, FP \div 1000)
  /\ (pc = "returned" /\ op = "raw2temp" /\ obj._isUserCalEnabled) =>
       ret.val = UserCorrection(obj, RefinedTemp(obj, locals.adcReading))

\* setUserCalibration2P(0, 2, 100, 98, true) has returned
C14_Witness ==
  /\ Cal2PReturned
  /\ locals.coldTruth = 0
  /\ locals.coldMeas = ToFloat(2)
  /\ locals.hotTruth = ToFloat(100)
  /\ locals.hotMeas = ToFloat(98)
  /\ obj._userCalOffsetCorrection = ToFloat(2)

\* C15 (as claimed): for inputs with cold truth # 0 the stored offset and
\* gain do not map cold measured to cold truth.
C15_OffsetOnlyFromZero ==
  (Cal2PReturned /\ locals.coldTruth # 0) =>
    ~Within(UserCorrection(obj, locals.coldMeas), locals.coldTruth, FP \div 1000)

\* C15 (amended): also for inputs with cold truth # 0 (hot truth # cold
\* truth, hot measured # cold measured, hot truth # 0) the stored offset
\* is the intended one: the correction maps cold measured to cold truth and
\* hot measured to hot truth, and the offset differs from cold measured.
C15_OffsetFromAnyColdTruth ==
  (Cal2PReturned /\ locals.coldTruth # 0) =>
    /\ MapsBothPoints
    /\ obj._userCalOffsetCorrection # locals.coldMeas

\* setUserCalibration2P(10, 12, 100, 98, true) has returned
C15_Witness ==
  /\ Cal2PReturned
  /\ locals.coldTruth = ToFloat(10)
  /\ locals.coldMeas = ToFloat(12)
  /\ locals.hotTruth = ToFloat(100)
  /\ locals.hotMeas = ToFloat(98)
  /\ obj._userCalOffsetCorrection # ToFloat(12)

\* C16: enableUserCalibration(b) sets the flag to b and changes nothing
\* else: the stored gain and offset, the averaging, the factory calibration
\* and the registers are as on entry, so with the flag set again raw2temp
\* (once init has loaded the factory calibration) gives what it gave before.
C16_EnableChangesFlagOnly ==
  (pc = "returned" /\ op = "enable") =>
    /\ obj = [entry.obj EXCEPT !._isUserCalEnabled = locals.isEnabled]
    /\ ADC = entry.ADC
    /\ VREF = entry.VREF
    /\ hist.initialised =>
         \A r \in CalReadings :
           raw2temp([obj EXCEPT !._isUserCalEnabled = TRUE], r)
             = raw2temp([entry.obj EXCEPT !._isUserCalEnabled = TRUE], r)

\* enableUserCalibration(false) has returned on an initialised object whose
\* two-point calibration was enabled
C16_Witness ==
  /\ pc = "returned"
  /\ op = "enable"
  /\ hist.initialised
  /\ ~locals.isEnabled
  /\ entry.obj._isUserCalEnabled
  /\ ~obj._isUserCalEnabled
  /\ obj._userCalOffsetCorrection = ToFloat(2)
  /\ obj._userCalGainCorrection # ToFloat(1)

(***************************************************************************)
(* SpecLive: the ADC driver with a hardware that answers.  The processor   *)
(* keeps executing the call (WF on its steps); the hardware eventually     *)
(* clears SYNCBUSY after a write and eventually completes a triggered      *)
(* conversion (WF on HwSync and HwConvert).  Nothing is assumed about the  *)
(* application calling.                                                    *)
(***************************************************************************)
LiveAvgArgs == {TZ_AVERAGING(1), 0}

NextLive ==
  \/ InitCall
  \/ InitWakeup
  \/ Wake_w25
  \/ \E a \in LiveAvgArgs : SetAveraging(a)
  \/ RawCall("readRaw")
  \/ RawSteps
  \/ Resume
  \/ HwSync
  \/ HwConvert(LibSample)
  \/ \E p \in AdcPresets : AppConfigure(p)

InitLive == InitWith({SyntheticFuses}, ObjAfterConstructor, {4}, AdcPresets)

SpecLive ==
  /\ InitLive
  /\ [][NextLive]_vars
  /\ WF_vars(InitWakeup \/ Wake_w25 \/ RawSteps)
  /\ WF_vars(HwSync)
  /\ WF_vars(HwConvert(LibSample))

\* the positions of readInternalTemperatureRaw: its waits on SYNCBUSY and
\* its two waits on RESRDY
SyncWaits ==
  {"raw137", "raw140", "raw144", "raw148", "raw151", "raw188", "raw193",
   "raw198", "raw201", "raw204", "raw207", "raw210"}

ReadyWaits == {"raw155", "raw192"}

\* the call leaves a wait only on the flag it spins on, and reports nothing
\* before it returns
LeavesWaitOnFlagOnly ==
  /\ (pc \in SyncWaits /\ pc' # pc) => ADC.SYNCBUSY # 1
  /\ (pc \in ReadyWaits /\ pc' # pc) => ADC.RESRDY = 1
  /\ (pc \in SyncWaits \cup ReadyWaits) => (ret = NoRet /\ ret' \in {NoRet, [kind |-> "raw", val |-> locals.adcReading]})

\* C17: with a hardware that eventually clears SYNCBUSY after each write and
\* eventually asserts RESRDY after each trigger, every call of
\* readInternalTemperatureRaw eventually returns; the call has no retry and
\* no timeout: it leaves a wait only when the flag it spins on allows, so it
\* stays in the wait for as long as the flag does not, and it reports no
\* error.
C17_ReturnsIfHardwareAnswers ==
  /\ (pc \in SyncWaits \cup ReadyWaits) ~> (pc = "returned" /\ op = "readRaw")
  /\ [][LeavesWaitOnFlagOnly]_vars

\* a call has returned after all its waits: twelve on SYNCBUSY, two on RESRDY
C17_Witness ==
  /\ pc = "returned"
  /\ op = "readRaw"
  /\ Cardinality(Occ("sync")) = Cardinality(SyncWaits)
  /\ Cardinality(Occ("rdy")) = Cardinality(ReadyWaits)
  /\ hist.triggers = 2

(***************************************************************************)
(* What readInternalTemperatureRaw does not restore.                       *)
(***************************************************************************)
\* AVGCTRL changes in this step
AvgctrlChanges == ADC'.AVGCTRL # ADC.AVGCTRL

\* C18 (checked under SpecLib, where only the library touches the ADC):
\* AVGCTRL is neither saved nor restored by readInternalTemperatureRaw (both
\* saved sampling values are SAMPCTRL); after a read with a valid averaging
\* mode AVGCTRL holds the value the read wrote for the mode, and in every
\* later step it keeps its value unless the step is the averaging switch of
\* a read with a valid mode.
C18_AvgctrlNotRestored ==
  /\ [](RawReturned =>
          /\ locals.oldSampling = entry.ADC.SAMPCTRL
          /\ locals.oldSampleAveraging = entry.ADC.SAMPCTRL
          /\ hist.avgWritten # -1 =>
               /\ ADC.AVGCTRL = hist.avgWritten
               /\ ADC.AVGCTRL = AveragingSwitch(obj._averaging))
  /\ [][AvgctrlChanges =>
          /\ pc = "raw155"
          /\ AveragingSwitch(obj._averaging) # -1
          /\ ADC'.AVGCTRL = AveragingSwitch(obj._averaging)]_vars

\* a read in the 256-sample mode has returned and left AVGCTRL different from
\* what it was on entry (the value of an earlier read with another mode)
C18_Witness ==
  /\ RawReturned
  /\ obj._averaging = TZ_AVERAGING(256)
  /\ hist.avgWritten = ADC.AVGCTRL
  /\ entry.ADC.AVGCTRL = AveragingSwitch(TZ_AVERAGING(1))
  /\ ADC.AVGCTRL # entry.ADC.AVGCTRL
  /\ ADC.SAMPCTRL = entry.ADC.SAMPCTRL

\* C19 (checked under Spec): on return from readInternalTemperatureRaw,
\* whatever the ADC was on entry, CTRLA.ENABLE is 0, RESRDY is clear and
\* MUXPOS / MUXNEG select the temperature sensor and the internal ground:
\* the enable bit and the input multiplexers are not restored.
C19_EnableAndMuxNotRestored ==
  RawReturned =>
    /\ ADC.ENABLE = 0
    /\ ADC.RESRDY = 0
    /\ ADC.START = 0
    /\ ADC.MUXPOS = ADC_INPUTCTRL_MUXPOS_TEMP_Val
    /\ ADC.MUXNEG = ADC_INPUTCTRL_MUXNEG_GND_Val

\* a read has returned on an ADC that was enabled and pointed at other
\* inputs on entry
C19_Witness ==
  /\ RawReturned
  /\ entry.ADC.ENABLE = 1
  /\ entry.ADC.MUXPOS # ADC_INPUTCTRL_MUXPOS_TEMP_Val
  /\ entry.ADC.MUXNEG # ADC_INPUTCTRL_MUXNEG_GND_Val
  /\ ADC.ENABLE = 0
  /\ ADC.MUXPOS # entry.ADC.MUXPOS

=============================================================================
